---- MODULE Spec2Model ----
(***************************************************************************)
(* Model of src-tauri/src/lib.rs: the four Tauri commands that talk to the *)
(* Rescue applet over PC/SC (read_device_details, get_device_info,         *)
(* write_config, enable_secure_boot), the TLV encoder inside write_config  *)
(* and the TLV parser inside read_device_details.                          *)
(*                                                                         *)
(* Bytes are integers 0..255, byte strings and Rust Strings (their UTF-8   *)
(* bytes) are sequences of bytes, Option<T> is a sequence of length 0      *)
(* (None) or 1 (Some).                                                     *)
(***************************************************************************)
EXTENDS Integers, Sequences, FiniteSets, TLC

\* ------------------------------------------------------------------ bounds

\* longest raw payload (over PayloadBytes) handed to the TLV parser
MaxPayloadLen == 6
\* longest value of the single-record payloads handed to the TLV parser
MaxValLen == 5
\* length of the over-long product name offered to write_config
LongNameLen == 254

\* --------------------------------------------------------------- constants

INS_WRITE == 28
INS_SECURE == 29
INS_READ == 30

TAG_VIDPID == 0
TAG_LED_GPIO == 4
TAG_LED_BRIGHTNESS == 5
TAG_OPTS == 6
TAG_UP_BTN == 8
TAG_USB_PRODUCT == 9
TAG_CURVES == 10
TAG_LED_DRIVER == 12

OPT_LED_DIMMABLE == 2
OPT_DISABLE_POWER_RESET == 4
OPT_LED_STEADY == 8

CURVE_SECP256K1 == 8

\* largest value length write_config accepts for the product name record
MaxProductLen == 32
\* number of bytes a select response must have for its version and serial
MinSelectLen == 14

RESCUE_AID == <<160, 88, 63, 193, 155, 126, 79, 33>>

\* ----------------------------------------------------------------- helpers

None == <<>>
Some(x) == <<x>>
IsSome(o) == Len(o) = 1
Unwrap(o) == o[1]

\* n copies of byte b
Fill(n, b) == [i \in 1..n |-> b]

\* s[from+1 ..], Rust's &s[from..]
Drop(s, from) == SubSeq(s, from + 1, Len(s))

\* EndsWith9000 with only the last byte compared
EndsWithZero(rx) ==
    /\ Len(rx) >= 1
    /\ rx[Len(rx)] = 0

\* Rust's slice::ends_with(&[0x90, 0x00])
EndsWith9000(rx) ==
    /\ Len(rx) >= 2
    /\ rx[Len(rx) - 1] = 144
    /\ rx[Len(rx)] = 0

\* bit test on a non-negative integer; mask is a power of two
BitSet(x, mask) == (x \div mask) % 2 = 1

\* u16::from_be_bytes / u32::from_be_bytes
U16BE(b1, b2) == b1 * 256 + b2
U32BE(b1, b2, b3, b4) == ((b1 * 256 + b2) * 256 + b3) * 256 + b4

\* WriteU16BE with the byte order swapped (write_u16::<LittleEndian>)
WriteU16LE(v) == <<v % 256, (v \div 256) % 256>>

\* WriteBytesExt::write_u16::<BigEndian> / write_u32::<BigEndian>
WriteU16BE(v) == <<(v \div 256) % 256, v % 256>>
WriteU32BE(v) ==
    <<(v \div 16777216) % 256, (v \div 65536) % 256, (v \div 256) % 256, v % 256>>

\* char::to_digit(16) on one byte of the string: -1 when it is no hex digit
HexDigitValue(c) ==
    IF c >= 48 /\ c <= 57 THEN c - 48
    ELSE IF c >= 65 /\ c <= 70 THEN c - 55
    ELSE IF c >= 97 /\ c <= 102 THEN c - 87
    ELSE -1

RECURSIVE ParseHexDigits(_, _)
\* accumulates the digits of s onto acc; -1 on an invalid digit or on u16 overflow
ParseHexDigits(s, acc) ==
    IF s = <<>> THEN acc
    ELSE LET d == HexDigitValue(Head(s))
         IN IF d < 0 THEN -1
            ELSE IF acc * 16 + d > 65535 THEN -1
            ELSE ParseHexDigits(Tail(s), acc * 16 + d)

\* u16::from_str_radix(s, 16): the value, or -1 for any ParseIntError.
\* An empty string, a lone sign, and '-' on an unsigned type are errors; one
\* leading '+' is accepted.
FromStrRadix16(s) ==
    IF s = <<>> THEN -1
    ELSE IF Len(s) = 1 /\ (s[1] = 43 \/ s[1] = 45) THEN -1
    ELSE IF s[1] = 43 THEN ParseHexDigits(Tail(s), 0)
    ELSE ParseHexDigits(s, 0)

\* one uppercase hex digit as its ASCII byte
UpperHexChar(d) == IF d < 10 THEN 48 + d ELSE 55 + d

\* format!("{:04X}", v) for a u16
FormatHex04(v) ==
    <<UpperHexChar((v \div 4096) % 16), UpperHexChar((v \div 256) % 16),
      UpperHexChar((v \div 16) % 16), UpperHexChar(v % 16)>>

RECURSIVE Utf8Valid(_)
\* std::str::from_utf8(s).is_ok()
Utf8Valid(s) ==
    IF s = <<>> THEN TRUE
    ELSE LET b == s[1]
             Cont(k) == Len(s) >= k /\ s[k] >= 128 /\ s[k] <= 191
         IN IF b < 128 THEN Utf8Valid(Drop(s, 1))
            ELSE IF b >= 194 /\ b <= 223
                 THEN Cont(2) /\ Utf8Valid(Drop(s, 2))
            ELSE IF b >= 224 /\ b <= 239
                 THEN /\ Cont(2) /\ Cont(3)
                      /\ (b = 224 => s[2] >= 160)
                      /\ (b = 237 => s[2] <= 159)
                      /\ Utf8Valid(Drop(s, 3))
            ELSE IF b >= 240 /\ b <= 244
                 THEN /\ Cont(2) /\ Cont(3) /\ Cont(4)
                      /\ (b = 240 => s[2] >= 144)
                      /\ (b = 244 => s[2] <= 143)
                      /\ Utf8Valid(Drop(s, 4))
            ELSE FALSE

RECURSIVE TrimStartNul(_)
TrimStartNul(s) ==
    IF s # <<>> /\ Head(s) = 0 THEN TrimStartNul(Tail(s)) ELSE s

RECURSIVE TrimEndNul(_)
TrimEndNul(s) ==
    IF s # <<>> /\ s[Len(s)] = 0 THEN TrimEndNul(SubSeq(s, 1, Len(s) - 1)) ELSE s

\* str::trim_matches(char::from(0)): NULs removed at both ends
TrimMatchesNul(s) == TrimEndNul(TrimStartNul(s))

\* std::str::from_utf8(val).unwrap_or("").trim_matches(char::from(0))
ProductNameOf(val) == IF Utf8Valid(val) THEN TrimMatchesNul(val) ELSE <<>>

\* ---------------------------------------------------- write_config: encode

\* AppConfig::default()
DefaultAppConfig ==
    [vid |-> <<>>, pid |-> <<>>, product_name |-> <<>>,
     led_gpio |-> 0, led_brightness |-> 0, touch_timeout |-> 0,
     led_driver |-> None,
     led_dimmable |-> FALSE, power_cycle_on_reset |-> FALSE,
     led_steady |-> FALSE, enable_secp256k1 |-> FALSE]

\* VID:PID (Tag 0x00): emitted only when both strings are present; "err" is the
\* message of the AppError::Io the `?` returns, "" when there is none
VidPidRecord(config) ==
    IF IsSome(config.vid) /\ IsSome(config.pid)
    THEN LET vid == FromStrRadix16(Unwrap(config.vid))
             pid == FromStrRadix16(Unwrap(config.pid))
         IN IF vid < 0 THEN [err |-> "Invalid VID", bytes |-> <<>>]
            ELSE IF pid < 0 THEN [err |-> "Invalid PID", bytes |-> <<>>]
            ELSE [err |-> "",
                  bytes |-> <<TAG_VIDPID, 4>> \o WriteU16BE(vid) \o WriteU16BE(pid)]
    ELSE [err |-> "", bytes |-> <<>>]

\* a one-byte record for an Option<u8> field
ByteRecord(tag, field) ==
    IF IsSome(field) THEN <<tag, 1, Unwrap(field)>> ELSE <<>>

\* OptsWord with the power-cycle bit not inverted
OptsWordNotInverted(dim, cycle, steady) ==
    (IF dim THEN OPT_LED_DIMMABLE ELSE 0)
    + (IF cycle THEN OPT_DISABLE_POWER_RESET ELSE 0)
    + (IF steady THEN OPT_LED_STEADY ELSE 0)

\* the u16 written under TAG_OPTS
OptsWord(dim, cycle, steady) ==
    (IF dim THEN OPT_LED_DIMMABLE ELSE 0)
    + (IF ~cycle THEN OPT_DISABLE_POWER_RESET ELSE 0)
    + (IF steady THEN OPT_LED_STEADY ELSE 0)

\* Options (Tag 0x06): emitted only when all three options are present
OptsRecord(config) ==
    IF /\ IsSome(config.led_dimmable)
       /\ IsSome(config.power_cycle_on_reset)
       /\ IsSome(config.led_steady)
    THEN <<TAG_OPTS, 2>>
         \o WriteU16BE(OptsWord(Unwrap(config.led_dimmable),
                                Unwrap(config.power_cycle_on_reset),
                                Unwrap(config.led_steady)))
    ELSE <<>>

\* Curves (Tag 0x0A)
CurvesRecord(config) ==
    IF IsSome(config.enable_secp256k1)
    THEN <<TAG_CURVES, 4>>
         \o WriteU32BE(IF Unwrap(config.enable_secp256k1) THEN CURVE_SECP256K1 ELSE 0)
    ELSE <<>>

\* ProductRecord with the bound off by one: a 32-byte name passes
ProductRecordOffByOne(config) ==
    IF IsSome(config.product_name) /\ Unwrap(config.product_name) # <<>>
    THEN LET name_bytes == Unwrap(config.product_name)
             len == Len(name_bytes) + 1
         IN IF len > MaxProductLen + 1
            THEN [err |-> "Product name too long", bytes |-> <<>>]
            ELSE [err |-> "",
                  bytes |-> <<TAG_USB_PRODUCT, len % 256>> \o name_bytes \o <<0>>]
    ELSE [err |-> "", bytes |-> <<>>]

\* ProductRecord without the length check
ProductRecordUnchecked(config) ==
    IF IsSome(config.product_name) /\ Unwrap(config.product_name) # <<>>
    THEN LET name_bytes == Unwrap(config.product_name)
             len == Len(name_bytes) + 1
         IN [err |-> "",
             bytes |-> <<TAG_USB_PRODUCT, len % 256>> \o name_bytes \o <<0>>]
    ELSE [err |-> "", bytes |-> <<>>]

\* Product Name (Tag 0x09): skipped when absent or empty, refused when the name
\* and its NUL exceed 32 bytes
ProductRecord(config) ==
    IF IsSome(config.product_name) /\ Unwrap(config.product_name) # <<>>
    THEN LET name_bytes == Unwrap(config.product_name)
             len == Len(name_bytes) + 1
         IN IF len > MaxProductLen
            THEN [err |-> "Product name too long", bytes |-> <<>>]
            ELSE [err |-> "",
                  bytes |-> <<TAG_USB_PRODUCT, len % 256>> \o name_bytes \o <<0>>]
    ELSE [err |-> "", bytes |-> <<>>]

\* step 1 of write_config, "Construct TLV Blob": the blob, or the error of the
\* first `?` / early return reached in source order
BuildTlv(config) ==
    LET vp == VidPidRecord(config)
        pn == ProductRecord(config)
    IN IF vp.err # "" THEN [err |-> vp.err, tlv |-> <<>>]
       ELSE IF pn.err # "" THEN [err |-> pn.err, tlv |-> <<>>]
       ELSE [err |-> "",
             tlv |-> vp.bytes
                     \o ByteRecord(TAG_LED_GPIO, config.led_gpio)
                     \o ByteRecord(TAG_LED_BRIGHTNESS, config.led_brightness)
                     \o ByteRecord(TAG_UP_BTN, config.touch_timeout)
                     \o OptsRecord(config)
                     \o CurvesRecord(config)
                     \o ByteRecord(TAG_LED_DRIVER, config.led_driver)
                     \o pn.bytes]

\* ---------------------------------------------- read_device_details: decode

\* the match on the tag of one complete record
ApplyRecord(config, tag, val) ==
    IF tag = TAG_VIDPID
    THEN IF Len(val) = 4
         THEN [config EXCEPT !.vid = FormatHex04(U16BE(val[1], val[2])),
                             !.pid = FormatHex04(U16BE(val[3], val[4]))]
         ELSE config
    ELSE IF tag = TAG_LED_GPIO
    THEN IF val # <<>> THEN [config EXCEPT !.led_gpio = val[1]] ELSE config
    ELSE IF tag = TAG_LED_BRIGHTNESS
    THEN IF val # <<>> THEN [config EXCEPT !.led_brightness = val[1]] ELSE config
    ELSE IF tag = TAG_UP_BTN
    THEN IF val # <<>> THEN [config EXCEPT !.touch_timeout = val[1]] ELSE config
    ELSE IF tag = TAG_USB_PRODUCT
    THEN [config EXCEPT !.product_name = ProductNameOf(val)]
    ELSE IF tag = TAG_OPTS
    THEN IF Len(val) >= 2
         THEN LET opts == U16BE(val[1], val[2])
              IN [config EXCEPT
                    !.led_dimmable = BitSet(opts, OPT_LED_DIMMABLE),
                    !.power_cycle_on_reset = ~BitSet(opts, OPT_DISABLE_POWER_RESET),
                    !.led_steady = BitSet(opts, OPT_LED_STEADY)]
         ELSE config
    ELSE IF tag = TAG_CURVES
    THEN IF Len(val) >= 4
         THEN LET curves == U32BE(val[1], val[2], val[3], val[4])
              IN [config EXCEPT !.enable_secp256k1 = BitSet(curves, CURVE_SECP256K1)]
         ELSE config
    ELSE IF tag = TAG_LED_DRIVER
    THEN IF val # <<>> THEN [config EXCEPT !.led_driver = Some(val[1])] ELSE config
    ELSE config

RECURSIVE ParseTlvFromClamped(_, _, _)
\* ParseTlvFrom with a record that overruns the data cut to the bytes that remain
\* instead of ending the scan
ParseTlvFromClamped(data, i, config) ==
    IF ~(i < Len(data)) THEN config
    ELSE IF i + 2 > Len(data) THEN config
    ELSE LET tag == data[i + 1]
             len == data[i + 2]
             j == i + 2
             end == IF j + len > Len(data) THEN Len(data) ELSE j + len
         IN ParseTlvFromClamped(data, end,
                                ApplyRecord(config, tag, SubSeq(data, j + 1, end)))

RECURSIVE ParseTlvFrom(_, _, _)
\* the while loop of "Parse TLV", started at 0-based offset i
ParseTlvFrom(data, i, config) ==
    IF ~(i < Len(data)) THEN config
    ELSE IF i + 2 > Len(data) THEN config
    ELSE LET tag == data[i + 1]
             len == data[i + 2]
             j == i + 2
         IN IF j + len > Len(data) THEN config
            ELSE ParseTlvFrom(data, j + len,
                              ApplyRecord(config, tag, SubSeq(data, j + 1, j + len)))

\* "Parse TLV" on the payload that precedes the status word
ParseTlv(data) == ParseTlvFrom(data, 0, DefaultAppConfig)

\* ------------------------------------------------------------------- APDUs

\* Select Applet APDU: 00 A4 04 04 [Len] [AID]
SelectApdu == <<0, 164, 4, 4, Len(RESCUE_AID) % 256>> \o RESCUE_AID
\* 80 1E 02 00 00
ReadFlashApdu == <<128, INS_READ, 2, 0, 0>>
\* 80 1E 03 00 00
ReadSecureApdu == <<128, INS_READ, 3, 0, 0>>
\* 80 1E 01 01 00
ReadPhyApdu == <<128, INS_READ, 1, 1, 0>>
\* 80 1C 01 00 [Lc] [Data], Lc = tlv.len() as u8
WriteApdu(tlv) == <<128, INS_WRITE, 1, 0, Len(tlv) % 256>> \o tlv
\* 80 1D [KeyIndex] [LockBool] 00
SecureBootApdu(lock) == <<128, INS_SECURE, 0, IF lock THEN 1 ELSE 0, 0>>

\* ------------------------------------------------------------ input domains

BoolOpt == {None, Some(TRUE), Some(FALSE)}

\* "12AB", "12ab", "G0", "10000"
VidInputs == {None, Some(<<49, 50, 65, 66>>), Some(<<49, 50, 97, 98>>),
              Some(<<71, 48>>), Some(<<49, 48, 48, 48, 48>>)}
\* "5678", "+1", ""
PidInputs == {None, Some(<<53, 54, 55, 56>>), Some(<<43, 49>>), Some(<<>>)}
\* "", "\0A", 31 and 32 times "a", LongNameLen times "a"
NameInputs == {None, Some(<<>>), Some(<<0, 65>>),
               Some(Fill(MaxProductLen - 1, 97)), Some(Fill(MaxProductLen, 97)),
               Some(Fill(LongNameLen, 97))}

\* the AppConfigInput values offered to write_config
Updates ==
    [vid : VidInputs, pid : PidInputs, product_name : NameInputs,
     led_gpio : {None, Some(3)}, led_brightness : {None, Some(255)},
     touch_timeout : {None, Some(30)}, led_driver : {None, Some(0)},
     led_dimmable : BoolOpt, power_cycle_on_reset : BoolOpt, led_steady : BoolOpt,
     enable_secp256k1 : {None, Some(TRUE)}]

\* an AppConfigInput with no field present
EmptyUpdate ==
    [vid |-> None, pid |-> None, product_name |-> None,
     led_gpio |-> None, led_brightness |-> None,
     touch_timeout |-> None, led_driver |-> None,
     led_dimmable |-> None, power_cycle_on_reset |-> None, led_steady |-> None,
     enable_secp256k1 |-> None]

RECURSIVE SeqsUpTo(_, _)
\* all sequences over S of length at most n
SeqsUpTo(S, n) ==
    IF n = 0 THEN {<<>>}
    ELSE LET shorter == SeqsUpTo(S, n - 1)
         IN shorter \cup {Append(s, x) : s \in {t \in shorter : Len(t) = n - 1}, x \in S}

\* the tags the parser knows, and one it does not (0x07)
PayloadTags == {TAG_VIDPID, TAG_LED_GPIO, TAG_LED_BRIGHTNESS, TAG_OPTS, TAG_UP_BTN,
                TAG_USB_PRODUCT, TAG_CURVES, TAG_LED_DRIVER, 7}
PayloadBytes == {0, 1, 2, 6, 12}

\* one complete record per known tag, every length up to MaxValLen
RecordPayloads ==
    {<<t, Len(v)>> \o v : t \in PayloadTags, v \in SeqsUpTo({10, 0}, MaxValLen)}

\* the payloads (status word already stripped) handed to the TLV parser
Payloads == SeqsUpTo(PayloadBytes, MaxPayloadLen) \cup RecordPayloads

\* ------------------------------------------------------- codec specification

VARIABLES cstage, cin, cbuilt, cdata, cout
VARIABLES pc, cmd, config, lock, built, connected, select_resp, log, result

cvars == <<cstage, cin, cbuilt, cdata, cout>>
mvars == <<pc, cmd, config, lock, built, connected, select_resp, log, result>>
vars == <<cstage, cin, cbuilt, cdata, cout,
          pc, cmd, config, lock, built, connected, select_resp, log, result>>

NoBuilt == [err |-> "", tlv |-> <<>>]
NoResult == [kind |-> "none", msg |-> "", raw |-> <<>>, value |-> <<>>]

\* no command has been invoked yet
InitMain ==
    /\ pc = "idle"
    /\ cmd = "none"
    /\ config = EmptyUpdate
    /\ lock = FALSE
    /\ built = NoBuilt
    /\ connected = FALSE
    /\ select_resp = <<>>
    /\ log = <<>>
    /\ result = NoResult

InitCodecIdle ==
    /\ cstage = "input"
    /\ cin = EmptyUpdate
    /\ cbuilt = NoBuilt
    /\ cdata = <<>>
    /\ cout = DefaultAppConfig

\* the codec on its own: an update to encode and decode again, or a raw payload
InitCodec ==
    /\ InitMain
    /\ cbuilt = NoBuilt
    /\ cout = DefaultAppConfig
    /\ \/ cstage = "input" /\ cin \in Updates /\ cdata = <<>>
       \/ cstage = "payload" /\ cin = EmptyUpdate /\ cdata \in Payloads

\* write_config step 1 on the update
Encode ==
    /\ cstage = "input"
    /\ cbuilt' = BuildTlv(cin)
    /\ cdata' = cbuilt'.tlv
    /\ cstage' = IF cbuilt'.err = "" THEN "encoded" ELSE "refused"
    /\ UNCHANGED <<cin, cout>>
    /\ UNCHANGED mvars

\* "Parse TLV" of read_device_details on the blob write_config built
DecodeEncoded ==
    /\ cstage = "encoded"
    /\ cout' = ParseTlv(cdata)
    /\ cstage' = "decoded"
    /\ UNCHANGED <<cin, cbuilt, cdata>>
    /\ UNCHANGED mvars

\* "Parse TLV" of read_device_details on a raw payload
DecodePayload ==
    /\ cstage = "payload"
    /\ cout' = ParseTlv(cdata)
    /\ cstage' = "parsed"
    /\ UNCHANGED <<cin, cbuilt, cdata>>
    /\ UNCHANGED mvars

NextCodec == Encode \/ DecodeEncoded \/ DecodePayload

SpecCodec == InitCodec /\ [][NextCodec]_vars

\* ---------------------------------------------------------- device responses

\* what card.transmit can give back: None is a pcsc::Error, Some(rx) the bytes
Outcomes(responses) == {None} \cup {Some(rx) : rx \in responses}

\* [MCU, PROD, VER_MAJ, VER_MIN, SERIAL(8 bytes), 90, 00], and shorter or failed ones
SelectResponses ==
    {<<1, 2, 1, 5, 170, 187, 204, 221, 17, 34, 51, 68, 144, 0>>,
     <<144, 0>>, <<106, 130>>, <<>>}
\* [Free(4), Used(4), Total(4), 90, 00], a short payload, and failed ones
FlashResponses ==
    {<<0, 0, 3, 232, 0, 0, 8, 0, 0, 0, 32, 0, 144, 0>>,
     <<0, 0, 3, 232, 0, 0, 144, 0>>, <<144, 0>>, <<106, 130>>, <<0>>}
\* [Enabled(1), Locked(1), Key(1)..., 90, 00], short and failed ones
SecureResponses ==
    {<<1, 0, 144, 0>>, <<0, 1, 0, 144, 0>>, <<1, 144, 0>>, <<144, 0>>,
     <<1, 1, 106, 130>>, <<>>}
\* TLV data followed by the status word, and failed ones
PhyResponses ==
    {<<0, 4, 18, 52, 86, 120, 6, 2, 0, 10, 144, 0>>,
     <<12, 1, 0, 9, 3, 75, 0, 144, 0>>, <<144, 0>>, <<106, 130>>, <<0>>}
\* responses to the write and to the secure boot command
WriteResponses == {<<144, 0>>, <<106, 130>>, <<>>}

\* ------------------------------------------------------------------ results

Ok(msg, value) == [kind |-> "Ok", msg |-> msg, raw |-> <<>>, value |-> value]
\* AppError::Pcsc, from a `?` on a pcsc call
PcscError == [kind |-> "Pcsc", msg |-> "PCSC Error", raw |-> <<>>, value |-> <<>>]
\* AppError::Io
IoError(msg) == [kind |-> "Io", msg |-> msg, raw |-> <<>>, value |-> <<>>]
\* AppError::Device; raw holds the response bytes the message prints, if any
DeviceError(msg, raw) == [kind |-> "Device", msg |-> msg, raw |-> raw, value |-> <<>>]

\* hex::encode_upper
RECURSIVE HexEncodeUpper(_)
HexEncodeUpper(bytes) ==
    IF bytes = <<>> THEN <<>>
    ELSE <<UpperHexChar(Head(bytes) \div 16), UpperHexChar(Head(bytes) % 16)>>
         \o HexEncodeUpper(Tail(bytes))

\* format!("{}", n) for a u8
FormatDec(n) ==
    IF n >= 100 THEN <<48 + (n \div 100), 48 + ((n \div 10) % 10), 48 + (n % 10)>>
    ELSE IF n >= 10 THEN <<48 + (n \div 10), 48 + (n % 10)>>
    ELSE <<48 + n>>

\* the k-th (0-based) read_u32::<BigEndian>().unwrap_or(0) of the cursor
ReadU32Or0(payload, k) ==
    IF Len(payload) >= 4 * (k + 1)
    THEN U32BE(payload[4 * k + 1], payload[4 * k + 2], payload[4 * k + 3], payload[4 * k + 4])
    ELSE 0

\* rx without its last two bytes
StripStatus(rx) == SubSeq(rx, 1, Len(rx) - 2)

\* DeviceInfo from the select response and the flash response
MakeDeviceInfo(select, rx_flash) ==
    [serial |-> HexEncodeUpper(SubSeq(select, 5, 12)),
     flash_used |-> ReadU32Or0(StripStatus(rx_flash), 1) \div 1024,
     flash_total |-> ReadU32Or0(StripStatus(rx_flash), 2) \div 1024,
     firmware_version |-> FormatDec(select[3]) \o <<46>> \o FormatDec(select[4])]

\* SecureBootFlags without the length test
SecureBootFlagsNoLength(rx_secure) ==
    IF EndsWith9000(rx_secure)
    THEN <<rx_secure[1] # 0, rx_secure[2] # 0>>
    ELSE <<FALSE, FALSE>>

\* the (sb_enabled, sb_locked) pair read_device_details derives from rx_secure
SecureBootFlags(rx_secure) ==
    IF EndsWith9000(rx_secure) /\ Len(rx_secure) >= 4
    THEN <<rx_secure[1] # 0, rx_secure[2] # 0>>
    ELSE <<FALSE, FALSE>>

\* ------------------------------------------------------------ the commands

\* one card.transmit call as the log keeps it
Sent(apdu, out) == [apdu |-> apdu, rx |-> out]

Return(r) == /\ result' = r
             /\ pc' = "done"

\* the invoke handler dispatches one command at a time
CanCall == pc = "idle"

\* the state a command starts from
Begin(name, c, l) ==
    /\ cmd' = name
    /\ config' = c
    /\ lock' = l
    /\ connected' = FALSE
    /\ select_resp' = <<>>
    /\ log' = <<>>

\* read_device_details / get_device_info / enable_secure_boot up to their call of
\* connect_and_select
CallReadDeviceDetails ==
    /\ CanCall
    /\ Begin("read_device_details", EmptyUpdate, FALSE)
    /\ built' = NoBuilt
    /\ result' = NoResult
    /\ pc' = "connect"
    /\ UNCHANGED cvars

CallGetDeviceInfo ==
    /\ CanCall
    /\ Begin("get_device_info", EmptyUpdate, FALSE)
    /\ built' = NoBuilt
    /\ result' = NoResult
    /\ pc' = "connect"
    /\ UNCHANGED cvars

CallEnableSecureBoot ==
    /\ CanCall
    /\ \E l \in BOOLEAN : Begin("enable_secure_boot", EmptyUpdate, l)
    /\ built' = NoBuilt
    /\ result' = NoResult
    /\ pc' = "connect"
    /\ UNCHANGED cvars

\* AfterBuild without the early return on an empty blob
AfterBuildNoShortCircuit(b) ==
    IF b.err # "" THEN "error" ELSE "connect"

\* what write_config does with the blob it built: return the encoding error,
\* return "No changes to apply" for an empty blob, or go on to connect
AfterBuild(b) ==
    IF b.err # "" THEN "error"
    ELSE IF b.tlv = <<>> THEN "no_changes"
    ELSE "connect"

\* write_config up to its call of connect_and_select: the blob is built, and the
\* command returns at once on an encoding error or an empty blob
CallWriteConfig ==
    /\ CanCall
    /\ \E c \in Updates :
         /\ Begin("write_config", c, FALSE)
         /\ built' = BuildTlv(c)
    /\ IF AfterBuild(built') = "error" THEN Return(IoError(built'.err))
       ELSE IF AfterBuild(built') = "no_changes"
       THEN Return(Ok("No changes to apply", <<>>))
       ELSE /\ result' = NoResult
            /\ pc' = "connect"
    /\ UNCHANGED cvars

\* connect_and_select, and where each command goes next
ConnectAndSelect ==
    /\ pc = "connect"
    /\ \E reader \in {"pcsc_error", "no_reader", "connected"},
          out \in Outcomes(SelectResponses) :
         IF reader = "pcsc_error"
         THEN /\ Return(PcscError)
              /\ UNCHANGED <<connected, select_resp, log>>
         ELSE IF reader = "no_reader"
         THEN /\ Return(DeviceError("No Smart Card Reader found.", <<>>))
              /\ UNCHANGED <<connected, select_resp, log>>
         ELSE /\ connected' = TRUE
              /\ log' = Append(log, Sent(SelectApdu, out))
              /\ IF out = None
                 THEN Return(PcscError) /\ UNCHANGED select_resp
                 ELSE IF ~EndsWith9000(Unwrap(out))
                 THEN /\ Return(DeviceError(
                            "Rescue Applet not found on device. Is it in FIDO mode?", <<>>))
                      /\ UNCHANGED select_resp
                 ELSE /\ select_resp' = Unwrap(out)
                      /\ pc' = CASE cmd = "read_device_details" -> "details_flash"
                                 [] cmd = "get_device_info" -> "info_flash"
                                 [] cmd = "write_config" -> "write"
                                 [] cmd = "enable_secure_boot" -> "secure_boot"
                      /\ UNCHANGED result
    /\ UNCHANGED <<cmd, config, lock, built>>
    /\ UNCHANGED cvars

\* get_device_info after connect_and_select
InfoReadFlash ==
    /\ pc = "info_flash"
    /\ IF Len(select_resp) < MinSelectLen
       THEN /\ Return(DeviceError("Invalid response from device", <<>>))
            /\ UNCHANGED log
       ELSE \E out \in Outcomes(FlashResponses) :
              /\ log' = Append(log, Sent(ReadFlashApdu, out))
              /\ IF out = None THEN Return(PcscError)
                 ELSE IF ~EndsWith9000(Unwrap(out))
                 THEN Return(DeviceError("Failed to read flash info", <<>>))
                 ELSE Return(Ok("", MakeDeviceInfo(select_resp, Unwrap(out))))
    /\ UNCHANGED <<cmd, config, lock, built, connected, select_resp>>
    /\ UNCHANGED cvars

\* read_device_details steps 1 and 2; the partial DeviceInfo is kept in result.value
DetailsReadFlash ==
    /\ pc = "details_flash"
    /\ IF Len(select_resp) < MinSelectLen
       THEN /\ Return(DeviceError("Invalid select response", <<>>))
            /\ UNCHANGED log
       ELSE \E out \in Outcomes(FlashResponses) :
              /\ log' = Append(log, Sent(ReadFlashApdu, out))
              /\ IF out = None THEN Return(PcscError)
                 ELSE IF ~EndsWith9000(Unwrap(out))
                 THEN Return(DeviceError("Failed to read flash", <<>>))
                 ELSE /\ result' = [NoResult EXCEPT
                            !.value = [info |-> MakeDeviceInfo(select_resp, Unwrap(out))]]
                      /\ pc' = "details_secure"
    /\ UNCHANGED <<cmd, config, lock, built, connected, select_resp>>
    /\ UNCHANGED cvars

\* read_device_details step 3
DetailsReadSecure ==
    /\ pc = "details_secure"
    /\ \E out \in Outcomes(SecureResponses) :
         /\ log' = Append(log, Sent(ReadSecureApdu, out))
         /\ IF out = None THEN Return(PcscError)
            ELSE /\ result' = [result EXCEPT
                       !.value = [info |-> result.value.info,
                                  secure_boot |-> SecureBootFlags(Unwrap(out))[1],
                                  secure_lock |-> SecureBootFlags(Unwrap(out))[2]]]
                 /\ pc' = "details_phy"
    /\ UNCHANGED <<cmd, config, lock, built, connected, select_resp>>
    /\ UNCHANGED cvars

\* read_device_details step 4, the TLV parse and the returned FullDeviceStatus
DetailsReadPhy ==
    /\ pc = "details_phy"
    /\ \E out \in Outcomes(PhyResponses) :
         /\ log' = Append(log, Sent(ReadPhyApdu, out))
         /\ IF out = None THEN Return(PcscError)
            ELSE IF ~EndsWith9000(Unwrap(out))
            THEN Return(DeviceError("Failed to read config", <<>>))
            ELSE Return(Ok("", [info |-> result.value.info,
                                config |-> ParseTlv(StripStatus(Unwrap(out))),
                                secure_boot |-> result.value.secure_boot,
                                secure_lock |-> result.value.secure_lock]))
    /\ UNCHANGED <<cmd, config, lock, built, connected, select_resp>>
    /\ UNCHANGED cvars

\* write_config step 2 after connect_and_select
WriteTransmit ==
    /\ pc = "write"
    /\ \E out \in Outcomes(WriteResponses) :
         /\ log' = Append(log, Sent(WriteApdu(built.tlv), out))
         /\ IF out = None THEN Return(PcscError)
            ELSE IF EndsWith9000(Unwrap(out))
            THEN Return(Ok("Configuration Applied Successfully", <<>>))
            ELSE Return(DeviceError("Write failed", Unwrap(out)))
    /\ UNCHANGED <<cmd, config, lock, built, connected, select_resp>>
    /\ UNCHANGED cvars

\* enable_secure_boot after connect_and_select
SecureBootTransmit ==
    /\ pc = "secure_boot"
    /\ \E out \in Outcomes(WriteResponses) :
         /\ log' = Append(log, Sent(SecureBootApdu(lock), out))
         /\ IF out = None THEN Return(PcscError)
            ELSE IF EndsWith9000(Unwrap(out))
            THEN Return(Ok("Secure Boot Enabled", <<>>))
            ELSE Return(DeviceError("Secure Boot failed", Unwrap(out)))
    /\ UNCHANGED <<cmd, config, lock, built, connected, select_resp>>
    /\ UNCHANGED cvars

\* the command has returned and its result is delivered: the card, the buffers
\* and the result go out of scope, and the handler waits for the next invoke
Deliver ==
    /\ pc = "done"
    /\ pc' = "idle"
    /\ cmd' = "none"
    /\ config' = EmptyUpdate
    /\ lock' = FALSE
    /\ built' = NoBuilt
    /\ connected' = FALSE
    /\ select_resp' = <<>>
    /\ log' = <<>>
    /\ result' = NoResult
    /\ UNCHANGED cvars

Init == InitMain /\ InitCodecIdle

Next ==
    \/ CallReadDeviceDetails
    \/ CallGetDeviceInfo
    \/ CallEnableSecureBoot
    \/ CallWriteConfig
    \/ ConnectAndSelect
    \/ InfoReadFlash
    \/ DetailsReadFlash
    \/ DetailsReadSecure
    \/ DetailsReadPhy
    \/ WriteTransmit
    \/ SecureBootTransmit
    \/ Deliver

Spec == Init /\ [][Next]_vars

\* ---------------------------------------------------- vocabulary of the claims

\* the response ends with the status bytes 90 00
StatusOk(rx) == Len(rx) >= 2 /\ SubSeq(rx, Len(rx) - 1, Len(rx)) = <<144, 0>>

\* the wire frames
IsSelectFrame(apdu) == apdu = <<0, 164, 4, 4, 8, 160, 88, 63, 193, 155, 126, 79, 33>>
IsFlashFrame(apdu) == apdu = <<128, 30, 2, 0, 0>>
IsSecureReadFrame(apdu) == apdu = <<128, 30, 3, 0, 0>>
IsPhyFrame(apdu) == apdu = <<128, 30, 1, 1, 0>>
IsWriteFrame(apdu) == Len(apdu) >= 5 /\ SubSeq(apdu, 1, 4) = <<128, 28, 1, 0>>
IsSecureSetFrame(apdu) == apdu \in {<<128, 29, 0, 0, 0>>, <<128, 29, 0, 1, 0>>}

HardChecked(apdu) ==
    \/ IsSelectFrame(apdu)
    \/ IsFlashFrame(apdu)
    \/ IsPhyFrame(apdu)
    \/ IsWriteFrame(apdu)
    \/ IsSecureSetFrame(apdu)

\* a 4-digit hexadecimal string
IsHex4(s) == Len(s) = 4 /\ \A i \in 1..4 : HexDigitValue(s[i]) >= 0
\* 4 uppercase hexadecimal digits
IsUpperHex4(s) == Len(s) = 4 /\ \A i \in 1..4 : s[i] \in (48..57) \cup (65..70)

\* both VID and PID are given and one of them does not parse
VidPidRefused(c) ==
    /\ IsSome(c.vid)
    /\ IsSome(c.pid)
    /\ (FromStrRadix16(Unwrap(c.vid)) < 0 \/ FromStrRadix16(Unwrap(c.pid)) < 0)

AllPresent(c) ==
    /\ IsSome(c.vid) /\ IsSome(c.pid) /\ IsSome(c.product_name)
    /\ IsSome(c.led_gpio) /\ IsSome(c.led_brightness) /\ IsSome(c.touch_timeout)
    /\ IsSome(c.led_driver) /\ IsSome(c.led_dimmable)
    /\ IsSome(c.power_cycle_on_reset) /\ IsSome(c.led_steady)
    /\ IsSome(c.enable_secp256k1)

OptionsPresent(c) ==
    IsSome(c.led_dimmable) /\ IsSome(c.power_cycle_on_reset) /\ IsSome(c.led_steady)

RECURSIVE IsRecordSeq(_)
\* the bytes are a sequence of complete tag-length-value records
IsRecordSeq(b) ==
    \/ b = <<>>
    \/ /\ Len(b) >= 2
       /\ 2 + b[2] <= Len(b)
       /\ IsRecordSeq(Drop(b, 2 + b[2]))

RECURSIVE RecordsOf(_)
\* the records of a sequence of complete records
RecordsOf(b) ==
    IF b = <<>> THEN <<>>
    ELSE <<[tag |-> b[1], val |-> SubSeq(b, 3, 2 + b[2])]>> \o RecordsOf(Drop(b, 2 + b[2]))

\* length of the longest prefix made of complete records
CompletePrefixLen(b) ==
    CHOOSE k \in 0..Len(b) :
        /\ IsRecordSeq(SubSeq(b, 1, k))
        /\ \A m \in (k + 1)..Len(b) : ~IsRecordSeq(SubSeq(b, 1, m))

KnownTags == {0, 4, 5, 6, 8, 9, 10, 12}

RECURSIVE ApplyAll(_, _)
\* the records applied in order, those with unrecognized tags left out
ApplyAll(recs, c) ==
    IF recs = <<>> THEN c
    ELSE ApplyAll(Tail(recs),
                  IF Head(recs).tag \in KnownTags
                  THEN ApplyRecord(c, Head(recs).tag, Head(recs).val)
                  ELSE c)

\* the WRITE frames transmitted in the current call
WriteSent == {k \in 1..Len(log) : IsWriteFrame(log[k].apdu)}

\* ------------------------------------------------------------------- claims

C2_StatusWordStrictness ==
    \A k \in 1..Len(log) :
        /\ (/\ HardChecked(log[k].apdu)
            /\ IsSome(log[k].rx)
            /\ ~StatusOk(Unwrap(log[k].rx)))
           => (k = Len(log) /\ pc = "done" /\ result.kind = "Device")
        /\ ~IsSelectFrame(log[k].apdu)
           => (/\ k > 1
               /\ IsSelectFrame(log[1].apdu)
               /\ IsSome(log[1].rx)
               /\ StatusOk(Unwrap(log[1].rx)))

\* a PHY read answered 6A 82 after three accepted frames ended the command
C2_Witness ==
    /\ pc = "done"
    /\ Len(log) = 4
    /\ IsPhyFrame(log[4].apdu)
    /\ log[4].rx = Some(<<106, 130>>)
    /\ result.kind = "Device"

\* C3: whenever vid or pid is present and is not a valid 4-digit hexadecimal
\* string, write_config returns the error "Invalid VID" or "Invalid PID", opens
\* no session and transmits no frame, whatever the other fields are.
C3_ValidationPrecedesCommunication ==
    (/\ cmd = "write_config"
     /\ \/ (IsSome(config.vid) /\ ~IsHex4(Unwrap(config.vid)))
        \/ (IsSome(config.pid) /\ ~IsHex4(Unwrap(config.pid))))
    => (/\ pc = "done"
        /\ result.kind = "Io"
        /\ result.msg \in {"Invalid VID", "Invalid PID"}
        /\ ~connected
        /\ log = <<>>)

\* C4 as stated: with a non-empty productName of at most 31 bytes the blob ends
\* with the record 09 <n+1> <name> 00; with 32 bytes or more write_config fails
\* with "Product name too long" and transmits nothing.
C4_ProductNameBoundary ==
    (cmd = "write_config" /\ IsSome(config.product_name)
       /\ Unwrap(config.product_name) # <<>>)
    => LET name == Unwrap(config.product_name)
           n == Len(name)
       IN IF n <= 31
          THEN built.err = ""
               => /\ Len(built.tlv) >= n + 3
                  /\ SubSeq(built.tlv, Len(built.tlv) - n - 2, Len(built.tlv))
                       = <<9, n + 1>> \o name \o <<0>>
          ELSE /\ pc = "done"
               /\ result.kind = "Io"
               /\ result.msg = "Product name too long"
               /\ ~connected
               /\ log = <<>>

\* C4 amended: with a non-empty productName of at most 31 bytes the blob encode
\* produces ends with the record 09 <n+1> <name> 00; with 32 bytes or more
\* write_config fails with a validation error and transmits nothing, the error
\* being "Product name too long" unless vid and pid are both present and one of
\* them does not parse, in which case it is "Invalid VID" or "Invalid PID".
C4_ProductNameBoundaryAmended ==
    (cmd = "write_config" /\ IsSome(config.product_name)
       /\ Unwrap(config.product_name) # <<>>)
    => LET name == Unwrap(config.product_name)
           n == Len(name)
       IN IF n <= 31
          THEN /\ built.err = "" <=> ~VidPidRefused(config)
               /\ built.err = ""
                  => /\ Len(built.tlv) >= n + 3
                     /\ SubSeq(built.tlv, Len(built.tlv) - n - 2, Len(built.tlv))
                          = <<9, n + 1>> \o name \o <<0>>
          ELSE /\ pc = "done"
               /\ result.kind = "Io"
               /\ IF VidPidRefused(config)
                  THEN result.msg \in {"Invalid VID", "Invalid PID"}
                  ELSE result.msg = "Product name too long"
               /\ ~connected
               /\ log = <<>>

\* a 31-byte name was transmitted in its record of value length 32
C4_Witness ==
    /\ cmd = "write_config"
    /\ pc = "done"
    /\ config.product_name = Some(Fill(31, 97))
    /\ WriteSent # {}
    /\ result.kind = "Ok"
    /\ SubSeq(built.tlv, Len(built.tlv) - 33, Len(built.tlv))
         = <<9, 32>> \o Fill(31, 97) \o <<0>>

\* C5 as stated: write_config opens a session and transmits a WRITE frame if and
\* only if the blob is non-empty; with an empty blob it returns "No changes to
\* apply" and transmits nothing.
C5_EmptyShortCircuit ==
    (cmd = "write_config" /\ pc = "done" /\ built.err = "")
    => /\ (connected /\ WriteSent # {}) <=> built.tlv # <<>>
       /\ built.tlv = <<>>
          => (/\ result.kind = "Ok"
              /\ result.msg = "No changes to apply"
              /\ log = <<>>)

\* C5 amended: write_config goes on to open a session if and only if the blob is
\* non-empty, and transmits a WRITE frame if and only if the blob is non-empty
\* and the session was opened (a reader was connected and the SELECT response
\* ended with 90 00); with an empty blob it returns "No changes to apply" and
\* transmits nothing, not even SELECT.
C5_EmptyShortCircuitAmended ==
    (cmd = "write_config" /\ built.err = "")
    => /\ built.tlv = <<>>
          => (/\ pc = "done"
              /\ result.kind = "Ok"
              /\ result.msg = "No changes to apply"
              /\ ~connected
              /\ log = <<>>)
       /\ built.tlv # <<>>
          => (/\ result.msg # "No changes to apply"
              /\ pc = "done"
                 => (WriteSent # {}
                       <=> (/\ connected
                            /\ Len(log) >= 1
                            /\ IsSome(log[1].rx)
                            /\ StatusOk(Unwrap(log[1].rx))))
              /\ pc = "done" /\ ~connected
                 => result.kind \in {"Pcsc", "Device"})

\* an update whose only field is an empty productName returned at once
C5_Witness ==
    /\ cmd = "write_config"
    /\ pc = "done"
    /\ config.product_name = Some(<<>>)
    /\ built = [err |-> "", tlv |-> <<>>]
    /\ result.msg = "No changes to apply"
    /\ log = <<>>

\* C6: the blob encode produces holds a tag 06 record if and only if ledDimmable,
\* powerCycleOnReset and ledSteady are all present; the record is unique, its
\* value is 2 bytes whose big-endian word has bit 02 iff ledDimmable, bit 04 iff
\* powerCycleOnReset is false, bit 08 iff ledSteady and no other bit; decoding
\* the blob returns the same three booleans.
C6_OptionsGroup ==
    (cstage \in {"encoded", "decoded"})
    => /\ IsRecordSeq(cdata)
       /\ LET recs == RecordsOf(cdata)
              at == {k \in 1..Len(recs) : recs[k].tag = 6}
          IN /\ at # {} <=> OptionsPresent(cin)
             /\ OptionsPresent(cin)
                => /\ Cardinality(at) = 1
                   /\ \A k \in at :
                        /\ Len(recs[k].val) = 2
                        /\ recs[k].val[1] * 256 + recs[k].val[2]
                             = (IF Unwrap(cin.led_dimmable) THEN 2 ELSE 0)
                               + (IF Unwrap(cin.power_cycle_on_reset) THEN 0 ELSE 4)
                               + (IF Unwrap(cin.led_steady) THEN 8 ELSE 0)
                   /\ cstage = "decoded"
                      => /\ cout.led_dimmable = Unwrap(cin.led_dimmable)
                         /\ cout.power_cycle_on_reset = Unwrap(cin.power_cycle_on_reset)
                         /\ cout.led_steady = Unwrap(cin.led_steady)

\* powerCycleOnReset = true went round with dimmable and steady false
C6_Witness ==
    /\ cstage = "decoded"
    /\ cin.led_dimmable = Some(FALSE)
    /\ cin.power_cycle_on_reset = Some(TRUE)
    /\ cin.led_steady = Some(FALSE)
    /\ cin.product_name = None
    /\ SubSeq(cdata, Len(cdata) - 3, Len(cdata)) = <<6, 2, 0, 0>>
    /\ cout.power_cycle_on_reset

\* C7 as stated: the secure-boot read never ends read_device_details, and the
\* flags are (byte0 # 0, byte1 # 0) when the response ends with 90 00 and has at
\* least 2 payload bytes, both false otherwise.
C7_SecureReadNeverFails ==
    (cmd = "read_device_details" /\ Len(log) >= 3)
    => /\ ~(pc = "done" /\ Len(log) = 3)
       /\ pc = "details_phy"
          => LET rx == Unwrap(log[3].rx)
             IN <<result.value.secure_boot, result.value.secure_lock>>
                  = IF StatusOk(rx) /\ Len(rx) - 2 >= 2
                    THEN <<rx[1] # 0, rx[2] # 0>>
                    ELSE <<FALSE, FALSE>>

\* C7 amended: whatever response the secure-boot read receives, it raises no error
\* and read_device_details goes on to the PHY read, with the flags
\* (byte0 # 0, byte1 # 0) when the response ends with 90 00 and has at least
\* 2 payload bytes and both false for every other response; only a transport
\* failure of that transmit ends the command, with the transport error.
C7_SecureReadAmended ==
    (cmd = "read_device_details" /\ Len(log) >= 3)
    => /\ IsSecureReadFrame(log[3].apdu)
       /\ IF IsSome(log[3].rx)
          THEN LET rx == Unwrap(log[3].rx)
                   flags == IF StatusOk(rx) /\ Len(rx) - 2 >= 2
                            THEN <<rx[1] # 0, rx[2] # 0>>
                            ELSE <<FALSE, FALSE>>
               IN /\ pc = "details_phy" \/ Len(log) = 4
                  /\ (pc = "details_phy" \/ result.kind = "Ok")
                     => <<result.value.secure_boot, result.value.secure_lock>> = flags
          ELSE /\ pc = "done"
               /\ Len(log) = 3
               /\ result.kind = "Pcsc"

\* a secure-boot read answered 6A 82 was followed by a successful PHY read
C7_Witness ==
    /\ cmd = "read_device_details"
    /\ pc = "done"
    /\ Len(log) = 4
    /\ log[3].rx = Some(<<1, 1, 106, 130>>)
    /\ result.kind = "Ok"
    /\ ~result.value.secure_boot
    /\ ~result.value.secure_lock

\* C8: a payload that is one record with a fixed-width tag assigns the field from
\* the record's leading bytes whenever the record's length is at least the tag's
\* minimum (4 for 0x00, 2 for 0x06, 4 for 0x0A, 1 for 0x04, 0x05, 0x08, 0x0C),
\* longer records included, and leaves every field unassigned when it is shorter.
C8_MinimumLengthRule ==
    (/\ cstage = "parsed"
     /\ Len(cdata) >= 2
     /\ Len(cdata) = 2 + cdata[2]
     /\ cdata[1] \in {0, 4, 5, 6, 8, 10, 12})
    => LET tag == cdata[1]
           v == Drop(cdata, 2)
           min == CASE tag = 0 -> 4 [] tag = 6 -> 2 [] tag = 10 -> 4 [] OTHER -> 1
           d == DefaultAppConfig
       IN cout =
            IF Len(v) < min THEN d
            ELSE CASE tag = 0 ->
                        [d EXCEPT !.vid = FormatHex04(v[1] * 256 + v[2]),
                                  !.pid = FormatHex04(v[3] * 256 + v[4])]
                   [] tag = 4 -> [d EXCEPT !.led_gpio = v[1]]
                   [] tag = 5 -> [d EXCEPT !.led_brightness = v[1]]
                   [] tag = 8 -> [d EXCEPT !.touch_timeout = v[1]]
                   [] tag = 12 -> [d EXCEPT !.led_driver = <<v[1]>>]
                   [] tag = 6 ->
                        [d EXCEPT !.led_dimmable = BitSet(v[2], 2),
                                  !.power_cycle_on_reset = ~BitSet(v[2], 4),
                                  !.led_steady = BitSet(v[2], 8)]
                   [] tag = 10 -> [d EXCEPT !.enable_secp256k1 = BitSet(v[4], 8)]

\* C9: parsing a payload ends without error and gives what parsing its longest
\* prefix of complete records gives: the records of that prefix applied in
\* order, those with unrecognized tags changing nothing, and nothing from the
\* first record whose declared length exceeds the remaining bytes onwards.
C9_LenientScan ==
    cstage = "parsed"
    => LET k == CompletePrefixLen(cdata)
           prefix == SubSeq(cdata, 1, k)
       IN /\ cout = ParseTlv(prefix)
          /\ cout = ApplyAll(RecordsOf(prefix), DefaultAppConfig)

\* an unknown record was skipped, the LED driver record after it was applied
\* and the truncated record behind both was dropped
C9_Witness ==
    /\ cstage = "parsed"
    /\ cdata = <<1, 0, 12, 1, 2, 6>>
    /\ cout = [DefaultAppConfig EXCEPT !.led_driver = Some(2)]

\* C10: for every update write_config accepts the blob has at most 255 bytes, and
\* every WRITE frame transmitted is 80 1C 01 00 <len> <TLV bytes> with the length
\* byte equal to the number of TLV bytes that follow.
C10_WriteFrameLength ==
    (cmd = "write_config" /\ built.err = "")
    => /\ Len(built.tlv) <= 255
       /\ \A k \in WriteSent :
            /\ log[k].apdu = <<128, 28, 1, 0, Len(built.tlv)>> \o built.tlv
            /\ log[k].apdu[5] = Len(log[k].apdu) - 5

\* the longest blob, every field present and a 31-byte name, was transmitted
C10_Witness ==
    /\ cmd = "write_config"
    /\ WriteSent = {2}
    /\ AllPresent(config)
    /\ Len(built.tlv) = 62
    /\ log[2].apdu[5] = 62

====
